---------------------------- MODULE Spec2Model ----------------------------
(***************************************************************************)
(* Model of validador-seriales-global: serial_utils.py (normalisation,     *)
(* token extraction, Levenshtein distance, fuzzy matching) and the         *)
(* "Validar ahora" block of app.py.                                        *)
(*                                                                         *)
(* A Python str is a sequence of one-character strings: "AB1" is           *)
(* <<"A", "B", "1">>, and "" is <<>>.                                      *)
(***************************************************************************)
EXTENDS Integers, Sequences, FiniteSets, TLC

VARIABLES
    pc,              \* position of the running code
    args,            \* arguments of the serial_utils function under call
    ret,             \* value that function returned
    ui,              \* app.py: the uploaded files and the settings widgets
    expected_set,    \* app.py line 123
    pdf_text,        \* app.py line 128
    candidates,      \* app.py line 134
    candidates_norm, \* app.py lines 135-146
    found_set,       \* app.py line 147
    found_order,     \* the order in which found_set iterates (list(found_set))
    encontrados,     \* app.py line 150
    faltantes,       \* app.py line 151
    posibles,        \* app.py lines 154-160
    extras_doc,      \* app.py line 163
    matcher_calls,   \* the calls of fuzzy_match_candidates made so far
    shown,           \* what the page shows: st.error texts and the result tables
    exception        \* the uncaught exception that ended the script, or "none"

callVars == <<args, ret>>

appVars == <<ui, expected_set, pdf_text, candidates, candidates_norm, found_set,
             found_order, encontrados, faltantes, posibles, extras_doc,
             matcher_calls, shown, exception>>

vars == <<pc, callVars, appVars>>

--------------------------------------------------------------------------
(* Generic helpers on Python values *)

\* The locals of the run_btn block before any of them is assigned.
AppLocalsUnset ==
    /\ expected_set = {}
    /\ pdf_text = <<>>
    /\ candidates = <<>>
    /\ candidates_norm = <<>>
    /\ found_set = {}
    /\ found_order = <<>>
    /\ encontrados = <<>>
    /\ faltantes = <<>>
    /\ posibles = <<>>
    /\ extras_doc = <<>>
    /\ matcher_calls = <<>>
    /\ shown = <<>>
    /\ exception = "none"

\* No script run: a serial_utils function is called on its own.
NoApp == ui = <<>> /\ AppLocalsUnset

Min2(x, y) == IF x <= y THEN x ELSE y

Min3(x, y, z) == Min2(x, Min2(y, z))

\* All sequences over S of length 0..n.
SeqsUpTo(S, n) == UNION {[1..k -> S] : k \in 0..n}

--------------------------------------------------------------------------
(* serial_utils._lev *)

\* Line 167: prev[j - 1] + (0 if ca == cb else 1).
replace_cost_always(prevj1, ca, cb) == prevj1 + 1

replace_cost(prevj1, ca, cb) == prevj1 + (IF ca = cb THEN 0 ELSE 1)

\* Lines 164-168: the inner loop over b, from column j on; curr holds
\* curr[0..j-1] of the code (one-based here).
RECURSIVE LevInner(_, _, _, _, _)
LevInner(ca, b, prev, curr, j) ==
    IF j > Len(b) THEN curr
    ELSE LET insert_cost == curr[j] + 1
             delete_cost == prev[j + 1] + 1
             repl        == replace_cost(prev[j], ca, b[j])
         IN  LevInner(ca, b, prev, Append(curr, Min3(insert_cost, delete_cost, repl)), j + 1)

\* Lines 162-169: the outer loop over a, from row i on.
RECURSIVE LevOuter(_, _, _, _)
LevOuter(a, b, prev, i) ==
    IF i > Len(a) THEN prev
    ELSE LevOuter(a, b, LevInner(a[i], b, prev, <<i>>, 1), i + 1)

\* Lines 154-155: if not b: return len(a).
LevEmptyB_lenb(a, b) == Len(b)

LevEmptyB(a, b) == Len(a)

\* Lines 158-170: swap so that a is the shorter string, then the rolling rows.
LevRows(a, b) ==
    LET s == IF Len(a) > Len(b) THEN b ELSE a
        l == IF Len(a) > Len(b) THEN a ELSE b
        prev0 == [j \in 1..(Len(l) + 1) |-> j - 1]
    IN  LevOuter(s, l, prev0, 1)[Len(l) + 1]

_lev(a, b) ==
    IF a = b THEN 0
    ELSE IF a = <<>> THEN Len(b)
    ELSE IF b = <<>> THEN LevEmptyB(a, b)
    ELSE LevRows(a, b)

--------------------------------------------------------------------------
(* Specification SpecLev: _lev called on every triple of bounded strings *)

MaxLen == 3

LevAlphabet == {"A", "B"}

LevStrings == SeqsUpTo(LevAlphabet, MaxLen)

InitLev ==
    /\ pc = "call_lev"
    /\ args \in [a : LevStrings, b : LevStrings, c : LevStrings]
    /\ ret = <<>>
    /\ NoApp

CallLev ==
    /\ pc = "call_lev"
    /\ ret' = [ab |-> _lev(args.a, args.b), ba |-> _lev(args.b, args.a),
               ac |-> _lev(args.a, args.c), cb |-> _lev(args.c, args.b)]
    /\ pc' = "returned_lev"
    /\ UNCHANGED <<args, appVars>>

NextLev == CallLev

SpecLev == InitLev /\ [][NextLev]_vars

\* The strings one insertion, deletion or substitution away from s, of
\* length at most cap.
OneEdit(s, cap) ==
    LET n == Len(s)
        dels == {[k \in 1..(n - 1) |-> IF k < i THEN s[k] ELSE s[k + 1]] : i \in 1..n}
        subs == {[s EXCEPT ![i] = ch] : i \in 1..n, ch \in LevAlphabet}
        inss == IF n >= cap THEN {}
                ELSE {[k \in 1..(n + 1) |-> IF k < i THEN s[k]
                                            ELSE IF k = i THEN ch ELSE s[k - 1]]
                        : i \in 1..(n + 1), ch \in LevAlphabet}
    IN  dels \cup subs \cup inss

\* The least number of single-character edits leading from a to b: the
\* depth at which a breadth-first search from a meets b.
RECURSIVE EditDepth(_, _, _, _)
EditDepth(reached, b, k, cap) ==
    IF b \in reached THEN k
    ELSE EditDepth(reached \cup UNION {OneEdit(s, cap) : s \in reached}, b, k + 1, cap)

MinEdits(a, b) == EditDepth({a}, b, 0, Len(a) + Len(b))

\* C2: _lev(a, b) is the minimum number of single-character insertions,
\* deletions or substitutions turning a into b, for empty arguments
\* (_lev("", b) = len(b)) and whichever argument is longer.
C2_LevIsMinEdits ==
    pc = "returned_lev" =>
        /\ ret.ab = MinEdits(args.a, args.b)
        /\ ret.ba = MinEdits(args.b, args.a)
        /\ (args.a = <<>> => ret.ab = Len(args.b))
        /\ (args.b = <<>> => ret.ab = Len(args.a))

C2_Witness ==
    /\ pc = "returned_lev"
    /\ Len(args.a) > Len(args.b)
    /\ args.b # <<>>
    /\ ret.ab = 2

\* C3: _lev is a metric: symmetric, zero exactly on equal strings, and
\* it satisfies the triangle inequality.
C3_LevIsMetric ==
    pc = "returned_lev" =>
        /\ ret.ab = ret.ba
        /\ (ret.ab = 0 <=> args.a = args.b)
        /\ ret.ab <= ret.ac + ret.cb

C3_Witness ==
    /\ pc = "returned_lev"
    /\ args.a # args.b
    /\ args.c # args.a
    /\ args.c # args.b
    /\ ret.ab = ret.ac + ret.cb

--------------------------------------------------------------------------
(* serial_utils.normalize_token *)

\* A Python value handed to normalize_token: None or a str.
PyNone == [none |-> TRUE, chars |-> <<>>]

PyStr(chars) == [none |-> FALSE, chars |-> chars]

LowerLetters == <<"a", "b", "c", "d", "e", "n">>

UpperLetters == <<"A", "B", "C", "D", "E", "N">>

\* str.upper() of one character: a cased letter maps to its capital, the
\* sharp s to the two letters "SS", anything else to itself.
UpperChar(ch) ==
    IF \E i \in 1..Len(LowerLetters) : LowerLetters[i] = ch
    THEN <<UpperLetters[CHOOSE i \in 1..Len(LowerLetters) : LowerLetters[i] = ch]>>
    ELSE IF ch = "ß" THEN <<"S", "S">>
    ELSE <<ch>>

\* Line 109: s2.upper().
RECURSIVE str_upper(_)
str_upper(s) == IF s = <<>> THEN <<>> ELSE UpperChar(Head(s)) \o str_upper(Tail(s))

\* s.replace(ch, "", 1): only the first occurrence goes.
RECURSIVE str_remove_first(_, _)
str_remove_first(s, ch) ==
    IF s = <<>> THEN <<>>
    ELSE IF Head(s) = ch THEN Tail(s)
    ELSE <<Head(s)>> \o str_remove_first(Tail(s), ch)

\* Lines 111-117: s2.replace(ch, ""), every occurrence of ch removed.
str_remove(s, ch) == SelectSeq(s, LAMBDA x : x # ch)

\* Lines 95-118.
normalize_token(s, cfg) ==
    IF s.none THEN <<>>
    ELSE LET s2 == s.chars
             s3 == IF cfg.do_upper THEN str_upper(s2) ELSE s2
             s4 == IF cfg.strip_spaces THEN str_remove(s3, " ") ELSE s3
             s5 == IF cfg.strip_dashes THEN str_remove(s4, "-") ELSE s4
             s6 == IF cfg.strip_dots THEN str_remove(s5, ".") ELSE s5
             s7 == IF cfg.strip_slashes THEN str_remove(str_remove(s6, "/"), "\\") ELSE s6
         IN  s7

\* The five keyword toggles of normalize_token, every combination.
NormConfigs ==
    [do_upper : BOOLEAN, strip_spaces : BOOLEAN, strip_dashes : BOOLEAN,
     strip_dots : BOOLEAN, strip_slashes : BOOLEAN]

--------------------------------------------------------------------------
(* Specification SpecNorm: normalize_token applied once, then to its own  *)
(* result, on every bounded input and every configuration                 *)

MaxNormLen == 3

NormAlphabet == {"a", "ß", " ", "-", ".", "/", "\\"}

NormInputs == {PyNone} \cup {PyStr(x) : x \in SeqsUpTo(NormAlphabet, MaxNormLen)}

InitNorm ==
    /\ pc = "call_normalize"
    /\ args \in [s : NormInputs, cfg : NormConfigs]
    /\ ret = <<>>
    /\ NoApp

CallNormalize ==
    /\ pc = "call_normalize"
    /\ ret' = [once |-> normalize_token(args.s, args.cfg)]
    /\ pc' = "call_normalize_again"
    /\ UNCHANGED <<args, appVars>>

CallNormalizeAgain ==
    /\ pc = "call_normalize_again"
    /\ ret' = [once |-> ret.once, twice |-> normalize_token(PyStr(ret.once), args.cfg)]
    /\ pc' = "returned_normalize"
    /\ UNCHANGED <<args, appVars>>

NextNorm == CallNormalize \/ CallNormalizeAgain

SpecNorm == InitNorm /\ [][NextNorm]_vars

\* C5: normalize_token is idempotent under every combination of the five
\* toggles, and None or "" normalises to "".
C5_NormalizeIdempotent ==
    /\ pc = "returned_normalize" => ret.twice = ret.once
    /\ pc # "call_normalize" /\ (args.s.none \/ args.s.chars = <<>>) => ret.once = <<>>

C5_Witness ==
    /\ pc = "returned_normalize"
    /\ args.cfg.do_upper /\ args.cfg.strip_spaces /\ ~args.cfg.strip_dashes
    /\ args.s.chars = <<" ", "ß", " ">>
    /\ ret.once = <<"S", "S">>
    /\ ret.twice = <<"S", "S">>

--------------------------------------------------------------------------
(* serial_utils.extract_tokens_by_regex *)

\* The patterns modelled are a character class repeated at least minrun
\* times, "[...]{minrun,}", and patterns re.compile rejects.
AsciiAlnum ==
    {"a", "b", "c", "d", "e", "n", "A", "B", "C", "D", "E", "N", "S", "X", "Y",
     "1", "2", "3"}

DefaultMinRun == 6

\* r"[A-Za-z0-9\-_/\.]{6,}": line 138, and the default of the text input
\* (app.py line 30).
DefaultRegex ==
    [src |-> "[A-Za-z0-9\\-_/\\.]{6,}", compiles |-> TRUE,
     cls |-> AsciiAlnum \cup {"-", "_", "/", "."}, minrun |-> DefaultMinRun]

\* A pattern the user may type instead.
AlnumRegex ==
    [src |-> "[A-Za-z0-9]{2,}", compiles |-> TRUE, cls |-> AsciiAlnum, minrun |-> 2]

\* "(": re.compile raises re.error.
InvalidRegex == [src |-> "(", compiles |-> FALSE, cls |-> {}, minrun |-> 0]

\* rgx.findall(text) for "[cls]{minrun,}": scanning from the left, each
\* maximal run of class characters that is long enough is one match. run is
\* the run being read, out the matches so far.
RECURSIVE FindallFrom(_, _, _, _)
FindallFrom(rgx, rest, run, out) ==
    LET closed == IF Len(run) >= rgx.minrun /\ run # <<>> THEN Append(out, run) ELSE out
    IN  IF rest = <<>> THEN closed
        ELSE IF Head(rest) \in rgx.cls
             THEN FindallFrom(rgx, Tail(rest), Append(run, Head(rest)), out)
             ELSE FindallFrom(rgx, Tail(rest), <<>>, closed)

regex_findall(rgx, text) == FindallFrom(rgx, text, <<>>, <<>>)

\* The except branch compiling a pattern that matches other tokens.
FallbackRegex_alnum == AlnumRegex

\* Lines 137-138: on re.error the built-in pattern is compiled instead.
FallbackRegex == DefaultRegex

\* Lines 131-139. The value returned is the list of matches, nothing else.
extract_tokens_by_regex(text, pattern) ==
    IF text = <<>> THEN <<>>
    ELSE LET rgx == IF pattern.compiles THEN pattern ELSE FallbackRegex
         IN  regex_findall(rgx, text)

--------------------------------------------------------------------------
(* Specification SpecTok: extract_tokens_by_regex on every bounded text   *)
(* with a pattern that compiles or not                                    *)

MaxTextLen == 7

TokAlphabet == {"A", "-", " "}

TokPatterns == {DefaultRegex, AlnumRegex, InvalidRegex}

InitTok ==
    /\ pc = "call_extract"
    /\ args \in [text : SeqsUpTo(TokAlphabet, MaxTextLen), pattern : TokPatterns]
    /\ ret = <<>>
    /\ NoApp

CallExtract ==
    /\ pc = "call_extract"
    /\ ret' = extract_tokens_by_regex(args.text, args.pattern)
    /\ pc' = "returned_extract"
    /\ UNCHANGED <<args, appVars>>

NextTok == CallExtract

SpecTok == InitTok /\ [][NextTok]_vars

--------------------------------------------------------------------------
(* serial_utils.fuzzy_match_candidates *)

\* Lines 185-188: the candidates within max_distance, in iteration order,
\* each paired with its distance.
RECURSIVE KeepWithin(_, _, _)
KeepWithin(tgt, cands, max_distance) ==
    IF cands = <<>> THEN <<>>
    ELSE LET c == Head(cands)
             d == _lev(tgt, c)
             rest == KeepWithin(tgt, Tail(cands), max_distance)
         IN  IF d <= max_distance THEN <<<<c, d>>>> \o rest ELSE rest

\* An insertion that puts x before the entries of equal distance.
RECURSIVE InsertByDist_before_ties(_, _)
InsertByDist_before_ties(sorted, x) ==
    IF sorted = <<>> THEN <<x>>
    ELSE IF Head(sorted)[2] < x[2]
         THEN <<Head(sorted)>> \o InsertByDist_before_ties(Tail(sorted), x)
         ELSE <<x>> \o sorted

\* Line 189: list.sort is stable; x goes after every entry whose key is not
\* greater than its own.
RECURSIVE InsertByDist(_, _)
InsertByDist(sorted, x) ==
    IF sorted = <<>> THEN <<x>>
    ELSE IF Head(sorted)[2] <= x[2]
         THEN <<Head(sorted)>> \o InsertByDist(Tail(sorted), x)
         ELSE <<x>> \o sorted

\* Line 189: out.sort(key=lambda x: x[1]).
RECURSIVE SortByDist(_, _)
SortByDist(out, sorted) ==
    IF out = <<>> THEN sorted
    ELSE SortByDist(Tail(out), InsertByDist(sorted, Head(out)))

\* Line 190: out[:k], also for a k below zero.
PySlicePrefix(out, k) ==
    IF k >= 0 THEN SubSeq(out, 1, Min2(k, Len(out)))
    ELSE SubSeq(out, 1, IF Len(out) + k > 0 THEN Len(out) + k ELSE 0)

\* Lines 173-190. target is a str, so "target or ''" is target itself.
fuzzy_match_candidates(target, cands, max_distance, top_k) ==
    LET tgt == target
        out == KeepWithin(tgt, cands, max_distance)
    IN  PySlicePrefix(SortByDist(out, <<>>), top_k)

--------------------------------------------------------------------------
(* Specification SpecFuzzy: fuzzy_match_candidates on bounded candidate   *)
(* lists, duplicates included                                             *)

MaxCands == 3

MaxDist == 2

MaxTopK == 3

FuzzyStrings ==
    {<<>>, <<"A">>, <<"B">>, <<"A", "B">>, <<"B", "A">>, <<"A", "B", "B">>}

InitFuzzy ==
    /\ pc = "call_fuzzy"
    /\ args \in [target : FuzzyStrings, candidates : SeqsUpTo(FuzzyStrings, MaxCands),
                 max_distance : 0..MaxDist, top_k : 1..MaxTopK]
    /\ ret = <<>>
    /\ NoApp

CallFuzzy ==
    /\ pc = "call_fuzzy"
    /\ ret' = fuzzy_match_candidates(args.target, args.candidates,
                                     args.max_distance, args.top_k)
    /\ pc' = "returned_fuzzy"
    /\ UNCHANGED <<args, appVars>>

NextFuzzy == CallFuzzy

SpecFuzzy == InitFuzzy /\ [][NextFuzzy]_vars

\* The candidates at distance exactly d from target, in iteration order.
AtDistance(target, cands, d) ==
    LET hits == SelectSeq(cands, LAMBDA c : _lev(target, c) = d)
    IN  [i \in 1..Len(hits) |-> <<hits[i], d>>]

\* The qualifying candidates sorted stably by distance: those at distance
\* 0, then those at distance 1, ..., each group in iteration order.
RECURSIVE RankedFrom(_, _, _, _)
RankedFrom(target, cands, d, max_distance) ==
    IF d > max_distance THEN <<>>
    ELSE AtDistance(target, cands, d) \o RankedFrom(target, cands, d + 1, max_distance)

\* A strictly increasing choice of positions pos with ret[i] the candidate
\* at position pos[i]: ret is a subsequence of the candidate list.
IsSubsequenceAt(pairs, cands, pos) ==
    /\ \A i \in 1..Len(pairs) : cands[pos[i]] = pairs[i][1]
    /\ \A i, j \in 1..Len(pairs) :
          (i < j /\ pairs[i][2] = pairs[j][2]) => pos[i] < pos[j]

\* C4: fuzzy_match_candidates returns the first top_k entries of the
\* qualifying candidates sorted stably by distance: at most top_k entries,
\* every distance at most max_distance, distances non-decreasing, equal
\* distances in iteration order, nothing when no candidate qualifies.
C4_FuzzyTopK ==
    pc = "returned_fuzzy" =>
        LET ranked == RankedFrom(args.target, args.candidates, 0, args.max_distance)
        IN  /\ ret = SubSeq(ranked, 1, Min2(args.top_k, Len(ranked)))
            /\ Len(ret) <= args.top_k
            /\ \A i \in 1..Len(ret) :
                  /\ ret[i][2] = _lev(args.target, ret[i][1])
                  /\ ret[i][2] <= args.max_distance
            /\ \A i, j \in 1..Len(ret) : i < j => ret[i][2] <= ret[j][2]
            /\ \E pos \in [1..Len(ret) -> 1..Len(args.candidates)] :
                  IsSubsequenceAt(ret, args.candidates, pos)
            /\ (\A i \in 1..Len(args.candidates) :
                   _lev(args.target, args.candidates[i]) > args.max_distance)
                   => ret = <<>>

C4_Witness ==
    /\ pc = "returned_fuzzy"
    /\ args.target = <<"A", "B">>
    /\ args.candidates = <<<<"B", "A">>, <<"B">>, <<"A">>>>
    /\ args.max_distance = 2
    /\ args.top_k = 2
    /\ ret = <<<<<<"B">>, 1>>, <<<<"A">>, 1>>>>

--------------------------------------------------------------------------
(* Python's order on str, sorted(), str.strip(), str.join() *)

\* ord(ch) of the characters that occur in the model.
CodePoint(ch) ==
    CASE ch = "\n" -> 10 [] ch = " " -> 32 [] ch = "-" -> 45 [] ch = "." -> 46
      [] ch = "/" -> 47 [] ch = "1" -> 49 [] ch = "2" -> 50 [] ch = "3" -> 51
      [] ch = "A" -> 65 [] ch = "B" -> 66 [] ch = "C" -> 67 [] ch = "D" -> 68
      [] ch = "E" -> 69 [] ch = "N" -> 78 [] ch = "S" -> 83 [] ch = "X" -> 88
      [] ch = "Y" -> 89 [] ch = "\\" -> 92 [] ch = "_" -> 95 [] ch = "a" -> 97
      [] ch = "b" -> 98 [] ch = "c" -> 99 [] ch = "d" -> 100 [] ch = "e" -> 101
      [] ch = "n" -> 110 [] ch = "ß" -> 223

\* a < b on str: lexicographic by code point.
RECURSIVE StrLess(_, _)
StrLess(a, b) ==
    IF b = <<>> THEN FALSE
    ELSE IF a = <<>> THEN TRUE
    ELSE IF Head(a) = Head(b) THEN StrLess(Tail(a), Tail(b))
    ELSE CodePoint(Head(a)) < CodePoint(Head(b))

\* sorted(S) of a set of str.
RECURSIVE SortedList(_)
SortedList(S) ==
    IF S = {} THEN <<>>
    ELSE LET least == CHOOSE x \in S : \A y \in S \ {x} : StrLess(x, y)
         IN  <<least>> \o SortedList(S \ {least})

IsSpace(ch) == ch \in {" ", "\n"}

RECURSIVE str_lstrip(_)
str_lstrip(s) == IF s # <<>> /\ IsSpace(Head(s)) THEN str_lstrip(Tail(s)) ELSE s

RECURSIVE str_rstrip(_)
str_rstrip(s) ==
    IF s # <<>> /\ IsSpace(s[Len(s)]) THEN str_rstrip(SubSeq(s, 1, Len(s) - 1)) ELSE s

str_strip(s) == str_rstrip(str_lstrip(s))

\* sep.join(parts).
RECURSIVE str_join(_, _)
str_join(sep, parts) ==
    IF parts = <<>> THEN <<>>
    ELSE IF Len(parts) = 1 THEN parts[1]
    ELSE parts[1] \o sep \o str_join(sep, Tail(parts))

\* The elements of a list, as set(list) collects them.
SetOf(list) == {list[i] : i \in 1..Len(list)}

\* The orders in which a set may iterate: every arrangement of its elements.
IterationOrders(S) ==
    {f \in [1..Cardinality(S) -> S] : \A i, j \in 1..Cardinality(S) : f[i] = f[j] => i = j}

--------------------------------------------------------------------------
(* serial_utils.extract_text_from_pdf *)

PdfMinText == 20

\* Lines 11-48. A PDF is what the two libraries make of it: pdfplumber
\* raises or yields one text per page (None, read as "", for a page
\* without a text layer), pdfminer raises or yields the whole text.
extract_text_from_pdf(file) ==
    LET text1 == IF file.plumber_raises THEN <<>>
                 ELSE str_strip(str_join(<<"\n">>, file.pages))
        text2 == IF file.miner_raises THEN <<>> ELSE file.miner_text
    IN  IF Len(text1) < PdfMinText /\ ~file.miner_raises
           /\ Len(str_strip(text2)) > Len(text1)
        THEN str_strip(text2)
        ELSE text1

--------------------------------------------------------------------------
(* app.py: what the user uploads and sets *)

ABC123 == <<"A", "B", "C", "1", "2", "3">>

ABD123 == <<"A", "B", "D", "1", "2", "3">>

ABE123 == <<"A", "B", "E", "1", "2", "3">>

abc_123 == <<"a", "b", "c", "-", "1", "2", "3">>

abd123 == <<"a", "b", "d", "1", "2", "3">>

\* A cell of the sheet: a str, or empty (NaN).
Cell(chars) == [nan |-> FALSE, chars |-> chars]

NaN == [nan |-> TRUE, chars |-> <<>>]

\* The rows of the sheet, as the values of the two serial columns.
ExcelRows ==
    { <<>>,
      <<[c1 |-> Cell(ABC123), c2 |-> NaN]>>,
      <<[c1 |-> Cell(ABC123), c2 |-> Cell(ABD123)]>>,
      <<[c1 |-> Cell(abc_123), c2 |-> Cell(ABE123)]>>,
      <<[c1 |-> Cell(ABC123), c2 |-> Cell(abd123)], [c1 |-> Cell(ABE123), c2 |-> NaN]>> }

NoFile == [none |-> TRUE]

\* An uploaded XLSX: whether pandas reads it, whether the two column names
\* typed resolve (exactly or case-insensitively) to columns of it, its rows.
XlsxFiles(readables, resolves) ==
    [none : {FALSE}, readable : readables, c1_resolves : resolves,
     c2_resolves : resolves, rows : ExcelRows]

\* The page texts of the documents.
Documents ==
    { <<<<>>>>,
      <<<<"X", "Y", " ", "1", "2">>>>,
      <<ABC123>>,
      <<ABD123 \o <<" ">> \o ABE123>>,
      <<abd123, ABE123 \o <<" ">> \o ABD123>>,
      <<ABC123 \o <<" ">> \o ABD123 \o <<" ">> \o ABE123>> }

\* An uploaded PDF: its pages as pdfplumber reads them and its text as
\* pdfminer reads it, unless the library raises.
PdfFiles ==
    {[none |-> FALSE, pages |-> d, miner_text |-> str_join(<<"\n">>, d) \o <<"\n">>,
      plumber_raises |-> o[1], miner_raises |-> o[2]]
        : d \in Documents, o \in {<<FALSE, FALSE>>, <<TRUE, FALSE>>, <<TRUE, TRUE>>}}

MinLenDefault == 6

\* Lines 27-41: the settings widgets. The toggles for spaces, dots and
\* slashes stay at their defaults.
Settings(fuzzies, distances, topks) ==
    [regex_pattern : {DefaultRegex, AlnumRegex, InvalidRegex},
     cfg : [do_upper : BOOLEAN, strip_spaces : {TRUE}, strip_dashes : BOOLEAN,
            strip_dots : {FALSE}, strip_slashes : {FALSE}],
     min_len : {MinLenDefault},
     enable_fuzzy : fuzzies,
     max_distance : distances,
     fuzzy_top_k : topks]

--------------------------------------------------------------------------
(* app.py: the "Validar ahora" block, lines 78-123 *)

\* Series.astype(str): an empty cell becomes the text "nan".
astype_str(cell) == IF cell.nan THEN <<"n", "a", "n">> ELSE cell.chars

\* Line 113: the two columns, one after the other.
expected_raw(rows) ==
    [i \in 1..Len(rows) |-> astype_str(rows[i].c1)]
        \o [i \in 1..Len(rows) |-> astype_str(rows[i].c2)]

\* serial_utils lines 121-128.
normalize_series(series, cfg) ==
    [i \in 1..Len(series) |-> normalize_token(PyStr(series[i]), cfg)]

\* Lines 113-123: the set the statements build from the sheet.
ExpectedSetOf(rows, cfg, min_len) ==
    LET expected_norm == normalize_series(expected_raw(rows), cfg)
        kept == SelectSeq(expected_norm, LAMBDA x : Len(x) >= min_len)
    IN  {x \in SetOf(kept) : x # <<>>}

\* st.error(...) followed by st.stop().
ErrorAndStop(msg) ==
    /\ shown' = Append(shown, [kind |-> "error", text |-> msg])
    /\ pc' = "stopped"

\* Lines 78-81.
CheckUploads ==
    /\ pc = "line79"
    /\ IF ui.xlsx_file.none \/ ui.pdf_file.none
       THEN ErrorAndStop("Por favor, sube ambos archivos")
       ELSE pc' = "line84" /\ UNCHANGED shown
    /\ UNCHANGED <<callVars, ui, expected_set, pdf_text, candidates, candidates_norm,
                   found_set, found_order, encontrados, faltantes, posibles,
                   extras_doc, matcher_calls, exception>>

\* Lines 84-92.
ReadExcel ==
    /\ pc = "line84"
    /\ IF ~ui.xlsx_file.readable
       THEN ErrorAndStop("No se pudo leer el Excel")
       ELSE pc' = "line95" /\ UNCHANGED shown
    /\ UNCHANGED <<callVars, ui, expected_set, pdf_text, candidates, candidates_norm,
                   found_set, found_order, encontrados, faltantes, posibles,
                   extras_doc, matcher_calls, exception>>

\* Lines 95-110.
ResolveColumns ==
    /\ pc = "line95"
    /\ IF ~ui.xlsx_file.c1_resolves \/ ~ui.xlsx_file.c2_resolves
       THEN ErrorAndStop("No encuentro estas columnas")
       ELSE pc' = "line113" /\ UNCHANGED shown
    /\ UNCHANGED <<callVars, ui, expected_set, pdf_text, candidates, candidates_norm,
                   found_set, found_order, encontrados, faltantes, posibles,
                   extras_doc, matcher_calls, exception>>

\* Lines 113-114. app.py imports extract_text_from_pdf, normalize_token,
\* extract_tokens_by_regex and fuzzy_match_candidates (lines 12-17) and binds
\* the name normalize_series nowhere: evaluating it raises NameError, which
\* nothing catches, and the script run ends there.
BuildExpected ==
    /\ pc = "line113"
    /\ exception' = "NameError: name 'normalize_series' is not defined"
    /\ pc' = "raised"
    /\ UNCHANGED <<callVars, ui, expected_set, pdf_text, candidates, candidates_norm,
                   found_set, found_order, encontrados, faltantes, posibles,
                   extras_doc, matcher_calls, shown>>

\* The button is pressed with any combination of uploads.
Init ==
    /\ pc = "line79"
    /\ args = <<>>
    /\ ret = <<>>
    /\ ui \in [xlsx_file : {NoFile} \cup XlsxFiles(BOOLEAN, BOOLEAN),
               pdf_file : {NoFile} \cup {f \in PdfFiles : ~f.miner_raises},
               settings : Settings({TRUE}, {1}, {3})]
    /\ AppLocalsUnset

Next == CheckUploads \/ ReadExcel \/ ResolveColumns \/ BuildExpected

Spec == Init /\ [][Next]_vars

--------------------------------------------------------------------------
(* app.py: the "Validar ahora" block, lines 125-191 *)

\* Line 150: expected_set.intersection(found_set).
set_intersection_as_union(a, b) == a \cup b

set_intersection(a, b) == a \cap b

\* Lines 151, 163: a.difference(b).
set_difference_as_intersection(a, b) == a \cap b

set_difference(a, b) == a \ b

\* Lines 125-131. extract_text_from_pdf catches what the libraries raise, so
\* the except branch of line 129 is not taken.
ExtractText ==
    /\ pc = "line125"
    /\ pdf_text' = extract_text_from_pdf(ui.pdf_file)
    /\ pc' = "line134"
    /\ UNCHANGED <<callVars, ui, expected_set, candidates, candidates_norm,
                   found_set, found_order, encontrados, faltantes, posibles,
                   extras_doc, matcher_calls, shown, exception>>

\* Line 134: one value is bound, the list of tokens.
ExtractCandidates ==
    /\ pc = "line134"
    /\ candidates' = extract_tokens_by_regex(pdf_text, ui.settings.regex_pattern)
    /\ pc' = "line135"
    /\ UNCHANGED <<callVars, ui, expected_set, pdf_text, candidates_norm,
                   found_set, found_order, encontrados, faltantes, posibles,
                   extras_doc, matcher_calls, shown, exception>>

\* Lines 135-146: the two list comprehensions.
NormalizeAndFilter(cands, cfg, min_len) ==
    LET normed == [i \in 1..Len(cands) |-> normalize_token(PyStr(cands[i]), cfg)]
    IN  SelectSeq(normed, LAMBDA c : Len(c) >= min_len)

NormalizeCandidates ==
    /\ pc = "line135"
    /\ candidates_norm' = NormalizeAndFilter(candidates, ui.settings.cfg, ui.settings.min_len)
    /\ pc' = "line147"
    /\ UNCHANGED <<callVars, ui, expected_set, pdf_text, candidates,
                   found_set, found_order, encontrados, faltantes, posibles,
                   extras_doc, matcher_calls, shown, exception>>

\* Line 147. The set iterates in an order that depends on the hashes of its
\* strings, which Python salts per process: any order may be the one.
BuildFoundSet ==
    /\ pc = "line147"
    /\ found_set' = SetOf(candidates_norm)
    /\ found_order' \in IterationOrders(SetOf(candidates_norm))
    /\ pc' = "line150"
    /\ UNCHANGED <<callVars, ui, expected_set, pdf_text, candidates,
                   candidates_norm, encontrados, faltantes, posibles,
                   extras_doc, matcher_calls, shown, exception>>

\* Lines 150-151.
Compare ==
    /\ pc = "line150"
    /\ encontrados' = SortedList(set_intersection(expected_set, found_set))
    /\ faltantes' = SortedList(set_difference(expected_set, found_set))
    /\ pc' = "line154"
    /\ UNCHANGED <<callVars, ui, expected_set, pdf_text, candidates,
                   candidates_norm, found_set, found_order, posibles,
                   extras_doc, matcher_calls, shown, exception>>

\* A pool drawn from the expected serials instead.
fuzzy_pool_expected == SortedList(expected_set)

\* Line 158: list(found_set).
fuzzy_pool == found_order

\* Lines 158-160 for one missing serial: the rows appended to posibles.
PosiblesRows(miss, pool, max_distance, top_k) ==
    LET cands == fuzzy_match_candidates(miss, pool, max_distance, top_k)
    IN  [i \in 1..Len(cands) |->
            [serial_faltante |-> miss, posible_en_documento |-> cands[i][1],
             distancia |-> cands[i][2]]]

\* Lines 154-155.
FuzzyGuard ==
    /\ pc = "line154"
    /\ posibles' = <<>>
    /\ pc' = IF ui.settings.enable_fuzzy /\ faltantes # <<>> /\ found_set # {}
             THEN "line157" ELSE "line163"
    /\ UNCHANGED <<callVars, ui, expected_set, pdf_text, candidates,
                   candidates_norm, found_set, found_order, encontrados,
                   faltantes, extras_doc, matcher_calls, shown, exception>>

\* Lines 157-160: one iteration of the loop over faltantes.
FuzzyStep ==
    /\ pc = "line157"
    /\ LET miss == faltantes[Len(matcher_calls) + 1]
       IN  /\ matcher_calls' = Append(matcher_calls, [target |-> miss, pool |-> fuzzy_pool])
           /\ posibles' = posibles \o PosiblesRows(miss, fuzzy_pool, ui.settings.max_distance,
                                                   ui.settings.fuzzy_top_k)
    /\ pc' = IF Len(matcher_calls) + 1 = Len(faltantes) THEN "line163" ELSE "line157"
    /\ UNCHANGED <<callVars, ui, expected_set, pdf_text, candidates,
                   candidates_norm, found_set, found_order, encontrados,
                   faltantes, extras_doc, shown, exception>>

\* Line 163.
Extras ==
    /\ pc = "line163"
    /\ extras_doc' = SortedList(set_difference(found_set, expected_set))
    /\ pc' = "line166"
    /\ UNCHANGED <<callVars, ui, expected_set, pdf_text, candidates,
                   candidates_norm, found_set, found_order, encontrados,
                   faltantes, posibles, matcher_calls, shown, exception>>

\* Lines 166-188: the three metrics and the tables; the table of posibles
\* only with fuzzy matching enabled.
ResultsShown ==
    [kind |-> "results",
     metrics |-> <<Len(encontrados), Len(faltantes), Len(extras_doc)>>,
     encontrados |-> encontrados,
     faltantes |-> faltantes,
     posibles |-> IF ui.settings.enable_fuzzy THEN posibles ELSE <<>>,
     extras |-> extras_doc]

ShowResults ==
    /\ pc = "line166"
    /\ shown' = Append(shown, ResultsShown)
    /\ pc' = "line191"
    /\ UNCHANGED <<callVars, ui, expected_set, pdf_text, candidates,
                   candidates_norm, found_set, found_order, encontrados,
                   faltantes, posibles, extras_doc, matcher_calls, exception>>

\* Line 191: app.py never imports io, so io.BytesIO() raises NameError; the
\* download button and the technical detail (lines 198-208) are not reached.
BuildReport ==
    /\ pc = "line191"
    /\ exception' = "NameError: name 'io' is not defined"
    /\ pc' = "raised"
    /\ UNCHANGED <<callVars, ui, expected_set, pdf_text, candidates,
                   candidates_norm, found_set, found_order, encontrados,
                   faltantes, posibles, extras_doc, matcher_calls, shown>>

\* The block from line 125 on, entered with the expected set lines 113-123
\* describe, for both files uploaded, read and resolved.
InitCompare ==
    /\ pc = "line125"
    /\ args = <<>>
    /\ ret = <<>>
    /\ ui \in [xlsx_file : XlsxFiles({TRUE}, {TRUE}),
               pdf_file : PdfFiles,
               settings : Settings(BOOLEAN, 1..MaxDist, 1..MaxTopK)]
    /\ expected_set = ExpectedSetOf(ui.xlsx_file.rows, ui.settings.cfg, ui.settings.min_len)
    /\ pdf_text = <<>>
    /\ candidates = <<>>
    /\ candidates_norm = <<>>
    /\ found_set = {}
    /\ found_order = <<>>
    /\ encontrados = <<>>
    /\ faltantes = <<>>
    /\ posibles = <<>>
    /\ extras_doc = <<>>
    /\ matcher_calls = <<>>
    /\ shown = <<>>
    /\ exception = "none"

NextCompare ==
    \/ ExtractText
    \/ ExtractCandidates
    \/ NormalizeCandidates
    \/ BuildFoundSet
    \/ Compare
    \/ FuzzyGuard
    \/ FuzzyStep
    \/ Extras
    \/ ShowResults
    \/ BuildReport

SpecCompare == InitCompare /\ [][NextCompare]_vars

--------------------------------------------------------------------------
(* Properties of the block from line 125 on, under SpecCompare *)

\* Line 163 has been executed.
AfterExtras == pc \in {"line166", "line191", "raised"}

\* The condition of line 155.
FuzzyRuns == ui.settings.enable_fuzzy /\ faltantes # <<>> /\ found_set # {}

NoTokenResults ==
    [kind |-> "results",
     metrics |-> <<0, Cardinality(expected_set), 0>>,
     encontrados |-> <<>>,
     faltantes |-> SortedList(expected_set),
     posibles |-> <<>>,
     extras |-> <<>>]

\* How a run ended, for whoever looks at the page.
Outcome == [shown |-> shown, exception |-> exception]

\* How the run ends when the extractor yields "".
OutcomeOnEmptyText ==
    [shown |-> <<NoTokenResults>>, exception |-> "NameError: name 'io' is not defined"]

RECURSIVE PosiblesFor(_, _, _, _)
PosiblesFor(missing, pool, max_distance, top_k) ==
    IF missing = <<>> THEN <<>>
    ELSE PosiblesRows(Head(missing), pool, max_distance, top_k)
            \o PosiblesFor(Tail(missing), pool, max_distance, top_k)

--------------------------------------------------------------------------
(* Properties of the whole block, under Spec *)

\* The found set lines 125-147 describe for a document and settings.
FoundSetOf(file, settings) ==
    SetOf(NormalizeAndFilter(
            extract_tokens_by_regex(extract_text_from_pdf(file), settings.regex_pattern),
            settings.cfg, settings.min_len))

\* Both files uploaded, the sheet read, both columns resolved.
InputsValid ==
    /\ ~ui.xlsx_file.none
    /\ ~ui.pdf_file.none
    /\ ui.xlsx_file.readable
    /\ ui.xlsx_file.c1_resolves
    /\ ui.xlsx_file.c2_resolves

\* C7: with a document that yields an empty found set and a non-empty
\* expected set, the run raises nothing, and once the comparison is made
\* everything expected is missing, nothing is found, nothing is extra and
\* nothing is suggested.
C7_EmptyFoundCompletes ==
    (/\ InputsValid
     /\ ExpectedSetOf(ui.xlsx_file.rows, ui.settings.cfg, ui.settings.min_len) # {}
     /\ FoundSetOf(ui.pdf_file, ui.settings) = {})
    => /\ exception = "none"
       /\ AfterExtras =>
             /\ SetOf(faltantes) =
                   ExpectedSetOf(ui.xlsx_file.rows, ui.settings.cfg, ui.settings.min_len)
             /\ encontrados = <<>>
             /\ extras_doc = <<>>
             /\ posibles = <<>>

==========================================================================
